---------------------------- MODULE Spec2Model ----------------------------
(***************************************************************************)
(* A model of xmkit (src/src/lib.rs): the eXtended Module (XM) reader.     *)
(*                                                                         *)
(* Bytes are naturals 0..255, a Vec<u8> is a sequence (Rust index i is     *)
(* TLA+ index i+1), Option<u8> is the empty or the one-element sequence,   *)
(* and a Result is a record tagged "Ok" or "Err".  An operation that       *)
(* aborts (an index or slice out of range, an arithmetic overflow in a     *)
(* build that checks it) yields the record tagged "Panic".                 *)
(***************************************************************************)
EXTENDS Integers, Sequences, FiniteSets, TLC

VARIABLES
    data,        \* the byte buffer handed to a parse function
    track,       \* an XMTrack: five parallel Vec<Option<u8>>
    fx_command,  \* the effect identifier a caller asks XMTrack::fx about
    channels,    \* the channel count handed to XMPattern::parse
    ptn,         \* an XMPattern: header bytes and one XMTrack per channel
    xm,          \* the XModule header scalars a pattern query reads
    smp,         \* an XMSample: header flags and delta payload
    instr,       \* an XMInstrument: header bytes and its XMSamples
    res          \* the value the last operation returned

vars == <<data, track, fx_command, channels, ptn, xm, smp, instr, res>>

---------------------------------------------------------------------------
(* Option<u8>, Result<_, XMParseError>, and byte arithmetic                *)

None == << >>
Some(v) == <<v>>
IsSome(o) == o # << >>
Val(o) == o[1]

Ok(v) == [tag |-> "Ok", val |-> v]
Err(why) == [tag |-> "Err", why |-> why]
Panic == [tag |-> "Panic"]
NoRes == [op |-> "none", row |-> 0, r |-> [tag |-> "None"]]

IsOk(r) == r.tag = "Ok"
IsErr(r) == r.tag = "Err"
IsRowErr(r) == r.tag = "Err" /\ r.why = "row"
IsFxErr(r) == r.tag = "Err" /\ r.why = "fx"
IsFormatErr(r) == r.tag = "Err" /\ r.why = "format"

\* b & (1 << k) != 0
Bit(b, k) == (b \div (2 ^ k)) % 2 = 1
\* b & 0xf0 and b & 0x0f
HiNibbleMask(b) == b - (b % 16)
LoNibble(b) == b % 16


---------------------------------------------------------------------------
(* Constants of the source                                                 *)

XM_EFFECTS ==
    << 0, 1, 2, 3, 4, 5, 6, 7, 8, 9, 10, 11, 12, 13, 15, 16, 17,
       20, 21, 25, 27, 29, 34, 35,
       225, 226, 227, 228, 229, 230, 231, 232, 233, 234, 235, 236, 237, 238 >>

XM_EFFECTS_WITH_MEMORY ==
    << 1, 2, 3, 4, 5, 6, 7, 9, 10, 17, 25, 27, 29, 34, 35, 225, 226, 234, 235 >>

XM_MODULE_NAME == 17
XM_TRACKER_NAME == 37
XM_VERSION_MINOR == 58
XM_VERSION_MAJOR == 59
XM_HEADER_SIZE == 60
XM_CHANNEL_COUNT == 68
XM_PATTERN_COUNT == 70
XM_INSTRUMENT_COUNT == 72
XM_DEFAULT_TEMPO == 76
XM_DEFAULT_BPM == 78

XM_FX_E5X == 229
XM_FX_TXX == 29
XM_FX_X2X == 35

---------------------------------------------------------------------------
(* XMTrack                                                                 *)

EmptyTrack ==
    [notes |-> << >>, instruments |-> << >>, volumes |-> << >>,
     fx_commands |-> << >>, fx_params |-> << >>]

\* One cell of a channel, as XMPattern::parse pushes it: one entry on each
\* of the five vectors.
PushCell(t, c) ==
    [notes |-> Append(t.notes, c.note),
     instruments |-> Append(t.instruments, c.instrument),
     volumes |-> Append(t.volumes, c.volume),
     fx_commands |-> Append(t.fx_commands, c.fx_command),
     fx_params |-> Append(t.fx_params, c.fx_param)]

TrackLen(t) == Len(t.notes)

\* TRUE when validate_row returns Ok(true), FALSE when it returns the error.
validate_row(t, row) == row < Len(t.notes)

\* valid_fx with the raw extended command byte 0x0E accepted as an identifier.
valid_fx_with_0e(fxc) ==
    fxc = 14 \/ \E i \in DOMAIN XM_EFFECTS : XM_EFFECTS[i] = fxc

valid_fx(fxc) == \E i \in DOMAIN XM_EFFECTS : XM_EFFECTS[i] = fxc

fx_mem(fxc) ==
    \E i \in DOMAIN XM_EFFECTS_WITH_MEMORY : XM_EFFECTS_WITH_MEMORY[i] = fxc

param_default(fxc) == IF fxc = XM_FX_E5X THEN 8 ELSE 0

\* The loop body of the plain branch for row r, given the running param.
fx_plain_row(t, fxc, r, param) ==
    LET p1 == IF IsSome(t.notes[r + 1]) THEN param_default(fxc) ELSE param
        cmd == t.fx_commands[r + 1]
        p == t.fx_params[r + 1]
    IN  IF IsSome(cmd)
        THEN IF Val(cmd) = fxc
             THEN IF IsSome(p) /\ (Val(p) > 0 \/ ~fx_mem(fxc)) THEN Val(p) ELSE p1
             ELSE IF ~fx_mem(fxc) THEN param_default(fxc) ELSE p1
        ELSE IF ~fx_mem(fxc) THEN param_default(fxc) ELSE p1

RECURSIVE fx_plain(_, _, _, _, _)
fx_plain(t, fxc, r, row, param) ==
    IF r > row THEN param
    ELSE fx_plain(t, fxc, r + 1, row, fx_plain_row(t, fxc, r, param))

cmd_hi(fxc) == IF fxc <= XM_FX_X2X THEN 33 ELSE 14

\* fx_command & 0xf, or (fx_command - 0x21) << 4 for X1x / X2x (u8 shift)
cmd_lo(fxc) == IF fxc <= XM_FX_X2X THEN ((fxc - 33) * 16) % 256 ELSE LoNibble(fxc)

\* The loop body of the extended branch for row r.
fx_ext_row(t, fxc, r, param) ==
    LET p1 == IF IsSome(t.notes[r + 1]) THEN param_default(fxc) ELSE param
        cmd == t.fx_commands[r + 1]
        p == t.fx_params[r + 1]
    IN  IF IsSome(cmd)
        THEN IF Val(cmd) = cmd_hi(fxc) /\ IsSome(p) /\ HiNibbleMask(Val(p)) = cmd_lo(fxc)
             THEN IF Val(p) > 0 \/ ~fx_mem(fxc) THEN LoNibble(Val(p))
                  ELSE param_default(fxc)
             ELSE p1
        ELSE IF ~fx_mem(fxc) THEN param_default(fxc) ELSE p1

RECURSIVE fx_ext(_, _, _, _, _)
fx_ext(t, fxc, r, row, param) ==
    IF r > row THEN param
    ELSE fx_ext(t, fxc, r + 1, row, fx_ext_row(t, fxc, r, param))

\* XMTrack::fx
fx(t, fxc, row) ==
    IF ~validate_row(t, row) THEN Err("row")
    ELSE IF ~valid_fx(fxc) THEN Err("fx")
    ELSE IF fxc <= XM_FX_TXX THEN Ok(fx_plain(t, fxc, 0, row, 0))
    ELSE Ok(fx_ext(t, fxc, 0, row, 0))


\* scan_back run forward: the oldest present value at or before current_row.
scan_back_oldest(field, current_row) ==
    LET S == {r \in 0..current_row : IsSome(field[r + 1])}
    IN  IF S = {} THEN 0
        ELSE Val(field[(CHOOSE r \in S : \A k \in S : r <= k) + 1])

\* The backward scan `for current_row in (0..row + 1).rev()` over one field vector:
\* the nearest present value at or before current_row, else 0.
RECURSIVE scan_back(_, _)
scan_back(field, current_row) ==
    IF current_row < 0 THEN 0
    ELSE IF IsSome(field[current_row + 1]) THEN Val(field[current_row + 1])
    ELSE scan_back(field, current_row - 1)

\* XMTrack::note
note(t, row) ==
    IF ~validate_row(t, row) THEN Err("row") ELSE Ok(scan_back(t.notes, row))

\* XMTrack::instrument
instrument(t, row) ==
    IF ~validate_row(t, row) THEN Err("row") ELSE Ok(scan_back(t.instruments, row))

\* volume_scan with the note test ahead of the volume test: a note hides the
\* volume byte of its own row.
RECURSIVE volume_scan_note_first(_, _)
volume_scan_note_first(t, current_row) ==
    IF current_row < 0 THEN 64
    ELSE LET vol == t.volumes[current_row + 1]
         IN  IF IsSome(t.notes[current_row + 1]) THEN 64
             ELSE IF IsSome(vol) /\ Val(vol) >= 16 /\ Val(vol) <= 80 THEN Val(vol) - 16
             ELSE volume_scan_note_first(t, current_row - 1)

\* The loop of XMTrack::volume from current_row down to 0.
RECURSIVE volume_scan(_, _)
volume_scan(t, current_row) ==
    IF current_row < 0 THEN 64
    ELSE LET vol == t.volumes[current_row + 1]
         IN  IF IsSome(vol) /\ Val(vol) >= 16 /\ Val(vol) <= 80 THEN Val(vol) - 16
             ELSE IF IsSome(t.notes[current_row + 1]) THEN 64
             ELSE volume_scan(t, current_row - 1)

\* XMTrack::volume
volume(t, row) ==
    IF ~validate_row(t, row) THEN Err("row") ELSE Ok(volume_scan(t, row))

\* XMTrack::note_raw, instrument_raw, volume_raw, fx_command_raw, fx_param_raw
note_raw(t, row) ==
    IF ~validate_row(t, row) THEN Err("row") ELSE Ok(t.notes[row + 1])
instrument_raw(t, row) ==
    IF ~validate_row(t, row) THEN Err("row") ELSE Ok(t.instruments[row + 1])
volume_raw(t, row) ==
    IF ~validate_row(t, row) THEN Err("row") ELSE Ok(t.volumes[row + 1])
fx_command_raw(t, row) ==
    IF ~validate_row(t, row) THEN Err("row") ELSE Ok(t.fx_commands[row + 1])
fx_param_raw(t, row) ==
    IF ~validate_row(t, row) THEN Err("row") ELSE Ok(t.fx_params[row + 1])

\* XMTrack::trigger
trigger(t, row) ==
    IF ~validate_row(t, row) THEN Err("row") ELSE Ok(IsSome(t.notes[row + 1]))

\* XMTrack::note_trigger: note_raw(row)? then the match
note_trigger(t, row) ==
    LET r == note_raw(t, row) IN IF IsOk(r) THEN Ok(IsSome(r.val)) ELSE r

---------------------------------------------------------------------------
(* Byte buffers                                                            *)

\* data[offset], defined when InBounds(data, offset)
ByteAt(d, offset) == d[offset + 1]
InBounds(d, offset) == offset >= 0 /\ offset < Len(d)

\* data[from..to].to_vec(), defined when from <= to <= data.len()
Slice(d, from, to) == SubSeq(d, from + 1, to)
SliceOk(d, from, to) == from <= to /\ to <= Len(d)

\* XModule::read_u16, defined when offset + 1 is in bounds
read_u16(d, offset) == ByteAt(d, offset) + ByteAt(d, offset + 1) * 256

\* XModule::read_usize, defined when offset + 3 is in bounds
read_usize(d, offset) ==
    ByteAt(d, offset) + ByteAt(d, offset + 1) * 256
        + ByteAt(d, offset + 2) * 65536 + ByteAt(d, offset + 3) * 16777216

\* The while loop of XModule::read_string: `pos <= offset + len && data[pos] != 0`
RECURSIVE read_string_loop(_, _, _, _, _)
read_string_loop(d, offset, len, pos, buf) ==
    IF ~(pos <= offset + len) THEN Ok(buf)
    ELSE IF ~InBounds(d, pos) THEN Panic
    ELSE IF ByteAt(d, pos) = 0 THEN Ok(buf)
    ELSE read_string_loop(d, offset, len, pos + 1, Append(buf, ByteAt(d, pos)))

\* String::from_utf8_lossy as code points, for buffers whose bytes >= 0x80 are
\* all >= 0xF8 (never part of a valid sequence): an ASCII byte is its own
\* character, every other byte becomes U+FFFD.
from_utf8_lossy(buf) == [i \in 1..Len(buf) |-> IF buf[i] < 128 THEN buf[i] ELSE 65533]

\* char::is_whitespace for the characters above
is_whitespace(c) == c \in {9, 10, 11, 12, 13, 32}

\* str::trim_right
RECURSIVE trim_right(_)
trim_right(str) ==
    IF str # << >> /\ is_whitespace(str[Len(str)])
    THEN trim_right(SubSeq(str, 1, Len(str) - 1))
    ELSE str

\* XModule::read_string(data, offset, len)
read_string(d, offset, len) ==
    CHOOSE out \in
        {IF IsOk(r) THEN Ok(trim_right(from_utf8_lossy(r.val))) ELSE r :
            r \in {read_string_loop(d, offset, len, offset, << >>)}} : TRUE

\* XModule::name, XModule::tracker_name
XModule_name(m) == read_string(m.header, XM_MODULE_NAME, 20)
XModule_tracker_name(m) == read_string(m.header, XM_TRACKER_NAME, 20)

\* XModule::bpm and XModule::tempo, defined when the header holds the offsets
XModule_bpm(m) == ByteAt(m.header, XM_DEFAULT_BPM)
XModule_tempo(m) == ByteAt(m.header, XM_DEFAULT_TEMPO)

---------------------------------------------------------------------------
(* XMPattern                                                               *)

\* In the packed form of a cell the fields whose bit is set in the control byte
\* follow it, one byte each: the number of fields present before field k.
Present(ctrl, k) == Cardinality({j \in 0..(k - 1) : Bit(ctrl, j)})

\* packed_field reading the fields present from the last byte of the cell back.
packed_field_reversed(d, ctrl, file_offset, k) ==
    IF Bit(ctrl, k)
    THEN Some(ByteAt(d, file_offset + Present(ctrl, 5) - Present(ctrl, k)))
    ELSE None

\* `if ctrl & (1 << k) != 0 { push(Some(data[file_offset])); file_offset += 1 }
\*  else { push(None) }` for field k, file_offset being that of the control byte
packed_field(d, ctrl, file_offset, k) ==
    IF Bit(ctrl, k) THEN Some(ByteAt(d, file_offset + 1 + Present(ctrl, k))) ELSE None

\* The packed branch: the reads are of consecutive bytes, so one is past the end
\* of data exactly when the last is.
packed_cell(d, ctrl, file_offset) ==
    IF file_offset + 1 + Present(ctrl, 5) > Len(d) THEN [panic |-> TRUE]
    ELSE [panic |-> FALSE,
          cell |-> [note |-> packed_field(d, ctrl, file_offset, 0),
                    instrument |-> packed_field(d, ctrl, file_offset, 1),
                    volume |-> packed_field(d, ctrl, file_offset, 2),
                    fx_command |-> packed_field(d, ctrl, file_offset, 3),
                    fx_param |-> packed_field(d, ctrl, file_offset, 4)],
          file_offset |-> file_offset + 1 + Present(ctrl, 5)]

\* The bytes one pass of the channel loop of XMPattern::parse reads at
\* file_offset: the cell decoded and the offset left, or a panic when an index
\* is past the end of data.
decode_cell(d, file_offset) ==
    IF ~InBounds(d, file_offset) THEN [panic |-> TRUE]
    ELSE IF Bit(ByteAt(d, file_offset), 7)
    THEN packed_cell(d, ByteAt(d, file_offset), file_offset)
    ELSE IF ~InBounds(d, file_offset + 4) THEN [panic |-> TRUE]
         ELSE [panic |-> FALSE,
               cell |-> [note |-> Some(ByteAt(d, file_offset)),
                         instrument |-> Some(ByteAt(d, file_offset + 1)),
                         volume |-> Some(ByteAt(d, file_offset + 2)),
                         fx_command |-> Some(ByteAt(d, file_offset + 3)),
                         fx_param |-> Some(ByteAt(d, file_offset + 4))],
               file_offset |-> file_offset + 5]

\* One pass of `for chan in 0..channel_count`: the cell decoded at the offset
\* of st is pushed onto the channel's track; st = [panic, tracks, file_offset].
chan_step(d, chan, st) ==
    CHOOSE out \in
        {IF c.panic THEN [panic |-> TRUE]
         ELSE [panic |-> FALSE,
               tracks |-> [st.tracks EXCEPT ![chan + 1] = PushCell(@, c.cell)],
               file_offset |-> c.file_offset] :
            c \in {decode_cell(d, st.file_offset)}} : TRUE

\* `for chan in 0..channel_count` for one row.  The state a pass leaves is
\* bound once (s) before the next pass reads it.
RECURSIVE parse_chans(_, _, _, _)
parse_chans(d, channel_count, chan, st) ==
    IF st.panic \/ chan >= channel_count THEN st
    ELSE CHOOSE out \in
            {parse_chans(d, channel_count, chan + 1, s) :
                s \in {chan_step(d, chan, st)}} : TRUE

\* `for _ in 0..ptn_len`
RECURSIVE parse_rows(_, _, _, _, _)
parse_rows(d, channel_count, ptn_len, r, st) ==
    IF st.panic \/ r >= ptn_len THEN st
    ELSE CHOOSE out \in
            {parse_rows(d, channel_count, ptn_len, r + 1, s) :
                s \in {parse_chans(d, channel_count, 0, st)}} : TRUE

\* XMPattern::parse(data, channel_count)
XMPattern_parse(d, channel_count) ==
    IF Len(d) < 9 \/ Len(d) # read_usize(d, 0) + read_u16(d, 7)
    THEN Err("format")
    ELSE CHOOSE out \in
            {IF st.panic THEN Panic
             ELSE Ok([header |-> Slice(d, 0, read_usize(d, 0)), tracks |-> st.tracks]) :
                st \in {parse_rows(d, channel_count, ByteAt(d, 5), 0,
                            [panic |-> FALSE,
                             tracks |-> [c \in 1..channel_count |-> EmptyTrack],
                             file_offset |-> read_usize(d, 0)])}} : TRUE

\* XMPattern::len, defined when the header holds offsets 5 and 6
XMPattern_len(p) == read_u16(p.header, 5)

\* XMPattern::channel_count
XMPattern_channel_count(p) == Len(p.tracks) % 256

\* `for row_nr in row_val_detect..row + 1` over one track, for bpm (want_bpm)
\* or tempo; st = [val, row_val_detect], or the error a raw accessor returned.
RECURSIVE speed_rows(_, _, _, _, _)
speed_rows(trk, row_nr, end, st, want_bpm) ==
    IF row_nr >= end THEN Ok(st)
    ELSE LET cmd == fx_command_raw(trk, row_nr)
             par == fx_param_raw(trk, row_nr)
         IN  IF IsErr(cmd) THEN cmd
             ELSE IF IsSome(cmd.val) /\ Val(cmd.val) = 15 /\ IsSome(par.val)
                     /\ (IF want_bpm THEN Val(par.val) >= 32 ELSE Val(par.val) < 32)
                  THEN speed_rows(trk, row_nr + 1, end,
                          [val |-> Val(par.val), row_val_detect |-> row_nr], want_bpm)
                  ELSE speed_rows(trk, row_nr + 1, end, st, want_bpm)

\* speed_tracks without the row skipping: every track scanned from row 0.
RECURSIVE speed_tracks_from_zero(_, _, _, _, _)
speed_tracks_from_zero(tracks, i, end, st, want_bpm) ==
    IF i > Len(tracks) THEN Ok(st.val)
    ELSE LET r == speed_rows(tracks[i], 0, end, st, want_bpm)
         IN  IF IsErr(r) THEN r
             ELSE speed_tracks_from_zero(tracks, i + 1, end, r.val, want_bpm)

\* `for trk in &self.tracks`
RECURSIVE speed_tracks(_, _, _, _, _)
speed_tracks(tracks, i, end, st, want_bpm) ==
    IF i > Len(tracks) THEN Ok(st.val)
    ELSE LET r == speed_rows(tracks[i], st.row_val_detect, end, st, want_bpm)
         IN  IF IsErr(r) THEN r ELSE speed_tracks(tracks, i + 1, end, r.val, want_bpm)

\* The shared body of XMPattern::bpm and XMPattern::tempo.  `row + 1` is u8
\* arithmetic, evaluated once per track: with row = 255 it aborts where the build
\* checks overflow and wraps to 0 where it does not.
speed_scan(p, default, row, want_bpm, overflow_checks) ==
    IF row + 1 > 255 /\ overflow_checks /\ Len(p.tracks) > 0 THEN Panic
    ELSE speed_tracks(p.tracks, 1, (row + 1) % 256,
                      [val |-> default, row_val_detect |-> 0], want_bpm)

\* XMPattern::bpm(xm, row)
bpm(p, xmod, row, overflow_checks) ==
    speed_scan(p, XModule_bpm(xmod), row, TRUE, overflow_checks)

\* XMPattern::tempo(xm, row)
tempo(p, xmod, row, overflow_checks) ==
    speed_scan(p, XModule_tempo(xmod), row, FALSE, overflow_checks)

---------------------------------------------------------------------------
(* XMSample                                                                *)

\* u16 / i32 value -> i16 (two's complement)
ToI16(n) == LET m == n % 65536 IN IF m >= 32768 THEN m - 65536 ELSE m

\* XMSample::is_16bit
is_16bit(s) == Bit(ByteAt(s.header, 14), 4)

\* XMSample::len
XMSample_len(s) == read_usize(s.header, 0)

\* The while loop of XMSample::data_16bit_signed from pos, with the running
\* smpval and the values pushed so far; read_u16 indexes data[pos + 1] in both
\* modes.
RECURSIVE decode_loop(_, _, _, _, _)
decode_loop(s, step, pos, smpval, out) ==
    IF ~(pos + step <= XMSample_len(s)) THEN Ok(out)
    ELSE IF ~InBounds(s.data, pos + 1) THEN Panic
    ELSE LET v == IF is_16bit(s)
                  THEN ToI16(smpval + ToI16(read_u16(s.data, pos)))
                  ELSE ToI16(smpval + ToI16(ToI16(read_u16(s.data, pos)) * 256))
         IN  decode_loop(s, step, pos + step, v, Append(out, v))

\* XMSample::data_16bit_signed
data_16bit_signed(s) ==
    decode_loop(s, IF is_16bit(s) THEN 2 ELSE 1, 0, 0, << >>)

\* A conversion applied to each value data_16bit_signed returns; an abort of
\* data_16bit_signed is an abort of the conversion.
map_samples(s, f(_)) ==
    CHOOSE out \in
        {IF IsOk(r) THEN Ok([i \in 1..Len(r.val) |-> f(r.val[i])]) ELSE r :
            r \in {data_16bit_signed(s)}} : TRUE

\* `as u16` of an i16
ToU16(n) == n % 65536

\* `as i8` of the low byte
ToI8(n) == IF n % 256 >= 128 THEN (n % 256) - 256 ELSE n % 256

\* `(smp >> 8) as i8`: the shift of an i16 is arithmetic
shr8_i8(v) == ToI8(IF v >= 0 THEN v \div 256 ELSE -((-v + 255) \div 256))

\* `(((smp as u16 >> 8) + 0x80) & 0xff) as u8`
shr8_u8_plus(v) == ((ToU16(v) \div 256) + 128) % 256

\* `((smp as u16 >> 8) & 0xff) as u8`, without the 0x80 that moves the zero line
shr8_u8(v) == (ToU16(v) \div 256) % 256

\* `smp.wrapping_add(0x7fffi16.wrapping_add(1)) as u16`
add_8000(v) == ToU16(ToI16(v + ToI16(32767 + 1)))

\* XMSample::data_8bit_signed
data_8bit_signed(s) == map_samples(s, shr8_i8)

\* data_8bit_unsigned without the offset
data_8bit_unsigned_no_offset(s) == map_samples(s, shr8_u8)

\* XMSample::data_8bit_unsigned
data_8bit_unsigned(s) == map_samples(s, shr8_u8_plus)

\* XMSample::data_16bit_unsigned
data_16bit_unsigned(s) == map_samples(s, add_8000)

\* XMSample::data_native
data_native(s) == Ok(s.data)

---------------------------------------------------------------------------
(* XMInstrument                                                            *)

\* The sample loop of XMInstrument::parse: i samples done, header_offset and
\* data_offset as the code holds them, samples pushed so far.
RECURSIVE parse_samples(_, _, _, _, _, _)
parse_samples(d, sample_count, i, header_offset, data_offset, samples) ==
    IF i >= sample_count THEN Ok(samples)
    ELSE IF ~SliceOk(d, header_offset, header_offset + 40) THEN Panic
    ELSE IF ~SliceOk(d, data_offset, data_offset + read_usize(d, header_offset)) THEN Panic
    ELSE IF ~InBounds(d, header_offset + 40 + 3) THEN Panic
    ELSE parse_samples(d, sample_count, i + 1, header_offset + 40,
            data_offset + read_usize(d, header_offset + 40),
            Append(samples,
                [header |-> Slice(d, header_offset, header_offset + 40),
                 data |-> Slice(d, data_offset,
                                data_offset + read_usize(d, header_offset))]))

\* XMInstrument::parse storing the declared header length for an instrument
\* without samples too.
XMInstrument_parse_declared(d) ==
    IF ~InBounds(d, 3) \/ ~SliceOk(d, 0, read_usize(d, 0)) THEN Panic
    ELSE CHOOSE out \in
            {IF IsOk(r) THEN Ok([header |-> Slice(d, 0, read_usize(d, 0)),
                                 samples |-> r.val])
             ELSE r :
                r \in {parse_samples(d, ByteAt(d, 27), 0, read_usize(d, 0),
                            read_usize(d, 0) + ByteAt(d, 27) * 40, << >>)}} : TRUE

\* XMInstrument::parse(data)
XMInstrument_parse(d) ==
    IF ~InBounds(d, 27) THEN Panic
    ELSE IF ByteAt(d, 27) > 0
    THEN IF ~InBounds(d, 3) \/ ~SliceOk(d, 0, read_usize(d, 0)) THEN Panic
         ELSE CHOOSE out \in
                {IF IsOk(r) THEN Ok([header |-> Slice(d, 0, read_usize(d, 0)),
                                     samples |-> r.val])
                 ELSE r :
                    r \in {parse_samples(d, ByteAt(d, 27), 0, read_usize(d, 0),
                                read_usize(d, 0) + ByteAt(d, 27) * 40, << >>)}} : TRUE
    ELSE IF ~SliceOk(d, 0, 29) THEN Panic
         ELSE Ok([header |-> Slice(d, 0, 29), samples |-> << >>])

\* XMInstrument::sample_count, defined when the header holds offset 27
XMInstrument_sample_count(ins) == ByteAt(ins.header, 27)

\* `if self.sample_count() == 0 { None } else { Some(self.header[offset]) }`
header_field(ins, offset) ==
    IF ~InBounds(ins.header, 27) THEN Panic
    ELSE IF XMInstrument_sample_count(ins) = 0 THEN Ok(None)
    ELSE IF ~InBounds(ins.header, offset) THEN Panic
    ELSE Ok(Some(ByteAt(ins.header, offset)))

\* `if self.sample_count() == 0 || self.header[points] == 0 { None }
\*  else { Some(self.header[offset]) }`
points_field(ins, points, offset) ==
    IF ~InBounds(ins.header, 27) THEN Panic
    ELSE IF XMInstrument_sample_count(ins) = 0 THEN Ok(None)
    ELSE IF ~InBounds(ins.header, points) THEN Panic
    ELSE IF ByteAt(ins.header, points) = 0 THEN Ok(None)
    ELSE IF ~InBounds(ins.header, offset) THEN Panic
    ELSE Ok(Some(ByteAt(ins.header, offset)))

\* `if self.sample_count() == 0 || self.header[points] == 0
\*     || self.header[type] & XM_ENVELOPE_LOOP == 0 { None }
\*  else { Some(self.header[offset]) }`
loop_field(ins, points, type, offset) ==
    IF ~InBounds(ins.header, 27) THEN Panic
    ELSE IF XMInstrument_sample_count(ins) = 0 THEN Ok(None)
    ELSE IF ~InBounds(ins.header, points) THEN Panic
    ELSE IF ByteAt(ins.header, points) = 0 THEN Ok(None)
    ELSE IF ~InBounds(ins.header, type) THEN Panic
    ELSE IF ~Bit(ByteAt(ins.header, type), 2) THEN Ok(None)
    ELSE IF ~InBounds(ins.header, offset) THEN Panic
    ELSE Ok(Some(ByteAt(ins.header, offset)))

\* `if self.sample_count() == 0 || self.header[points] == 0 { None }
\*  else { Some(self.header[from..(from + self.header[points])].to_vec()) }`
envelope_field(ins, points, from) ==
    IF ~InBounds(ins.header, 27) THEN Panic
    ELSE IF XMInstrument_sample_count(ins) = 0 THEN Ok(None)
    ELSE IF ~InBounds(ins.header, points) THEN Panic
    ELSE IF ByteAt(ins.header, points) = 0 THEN Ok(None)
    ELSE IF ~SliceOk(ins.header, from, from + ByteAt(ins.header, points)) THEN Panic
    ELSE Ok(Some(Slice(ins.header, from, from + ByteAt(ins.header, points))))

panning_envelope(ins) == envelope_field(ins, 226, 177)
panning_loop_start(ins) == loop_field(ins, 225, 233, 231)
panning_loop_end(ins) == loop_field(ins, 225, 233, 232)
panning_sustain(ins) == points_field(ins, 225, 230)
panning_type(ins) == header_field(ins, 234)

sample_numbers(ins) ==
    IF ~InBounds(ins.header, 27) THEN Panic
    ELSE IF XMInstrument_sample_count(ins) = 0 THEN Ok(None)
    ELSE IF ~SliceOk(ins.header, 33, 129) THEN Panic
    ELSE Ok(Some(Slice(ins.header, 33, 129)))

vibrato_depth(ins) == header_field(ins, 237)
vibrato_rate(ins) == header_field(ins, 238)
vibrato_sweep(ins) == header_field(ins, 236)
vibrato_type(ins) == header_field(ins, 235)

volume_envelope(ins) == envelope_field(ins, 225, 129)

\* header[239] as u16 + ((header[240] as u16) << 8)
volume_fadeout(ins) ==
    IF ~InBounds(ins.header, 27) THEN Panic
    ELSE IF XMInstrument_sample_count(ins) = 0 THEN Ok(None)
    ELSE IF ~InBounds(ins.header, 240) THEN Panic
    ELSE Ok(Some(read_u16(ins.header, 239)))

volume_loop_start(ins) == loop_field(ins, 225, 233, 228)
volume_loop_end(ins) == loop_field(ins, 225, 233, 229)
volume_sustain(ins) == points_field(ins, 225, 227)
volume_type(ins) == header_field(ins, 233)

\* XMInstrument::name, XMSample::name
XMInstrument_name(ins) == read_string(ins.header, 4, 22)
XMSample_name(s) == read_string(s.header, 18, 22)

---------------------------------------------------------------------------
(* XModule                                                                 *)

\* "Extended Module: ".as_bytes()
Magic == << 69, 120, 116, 101, 110, 100, 101, 100, 32,
            77, 111, 100, 117, 108, 101, 58, 32 >>

\* XModule::verify_filetype: Ok(()) is Ok(TRUE)
verify_filetype(d) ==
    IF Len(d) < 60 THEN Err("format")
    ELSE IF ~InBounds(d, XM_HEADER_SIZE + 3) THEN Panic
    ELSE IF Len(d) < 60 + read_usize(d, XM_HEADER_SIZE) THEN Err("format")
    ELSE IF Slice(d, 0, 17) # Magic THEN Err("format")
    ELSE IF ByteAt(d, XM_VERSION_MINOR) # 4 \/ ByteAt(d, XM_VERSION_MAJOR) # 1
         THEN Err("format")
    ELSE Ok(TRUE)

\* One pass of the pattern loop of XModule::parse once ptn_size is read
pattern_step(d, channel_count, file_offset, ptn_size) ==
    IF ~SliceOk(d, file_offset, file_offset + ptn_size) THEN Panic
    ELSE XMPattern_parse(Slice(d, file_offset, file_offset + ptn_size), channel_count)

\* The pattern loop of XModule::parse: i patterns done;
\* the result carries the patterns and the file_offset the loop leaves.
RECURSIVE parse_patterns(_, _, _, _, _, _)
parse_patterns(d, channel_count, pattern_count, i, file_offset, patterns) ==
    IF i >= pattern_count
    THEN Ok([patterns |-> patterns, file_offset |-> file_offset])
    ELSE IF ~InBounds(d, file_offset + 8) THEN Panic
    ELSE CHOOSE out \in
            {IF ~IsOk(r) THEN r
             ELSE parse_patterns(d, channel_count, pattern_count, i + 1,
                     file_offset + read_usize(d, file_offset) + read_u16(d, file_offset + 7),
                     Append(patterns, r.val)) :
                r \in {pattern_step(d, channel_count, file_offset,
                           read_usize(d, file_offset) + read_u16(d, file_offset + 7))}} : TRUE

\* `for _ in 0..sample_count { data_length += ...; file_offset += 40; }`:
\* the file_offset after the sample headers plus the summed data lengths.
RECURSIVE skip_samples(_, _, _, _, _)
skip_samples(d, sample_count, i, file_offset, data_length) ==
    IF i >= sample_count THEN Ok(file_offset + data_length)
    ELSE IF ~InBounds(d, file_offset + 3) THEN Panic
    ELSE skip_samples(d, sample_count, i + 1, file_offset + 40,
                      data_length + read_usize(d, file_offset))

\* The file_offset the instrument loop of XModule::parse reaches before it
\* slices the instrument: past the header, then 29 more for an instrument
\* without samples, else past the sample headers and payloads.
instrument_end(d, file_offset) ==
    IF ~InBounds(d, file_offset + 27) THEN Panic
    ELSE IF ByteAt(d, file_offset + 27) = 0
    THEN Ok(file_offset + read_usize(d, file_offset) + 29)
    ELSE skip_samples(d, ByteAt(d, file_offset + 27), 0,
                      file_offset + read_usize(d, file_offset), 0)

\* One pass of the instrument loop: the instrument parsed, and the file_offset
\* left
instrument_step(d, instr_offset) ==
    CHOOSE out \in
        {IF ~IsOk(e) THEN e
         ELSE IF ~SliceOk(d, instr_offset, e.val) THEN Panic
         ELSE CHOOSE out2 \in
                {IF ~IsOk(r) THEN r
                 ELSE Ok([instr |-> r.val, file_offset |-> e.val]) :
                    r \in {XMInstrument_parse(Slice(d, instr_offset, e.val))}} : TRUE :
            e \in {instrument_end(d, instr_offset)}} : TRUE

\* The instrument loop of XModule::parse
RECURSIVE parse_instruments(_, _, _, _, _)
parse_instruments(d, instrument_count, i, file_offset, instruments) ==
    IF i >= instrument_count THEN Ok(instruments)
    ELSE CHOOSE out \in
            {IF ~IsOk(s) THEN s
             ELSE parse_instruments(d, instrument_count, i + 1, s.val.file_offset,
                                    Append(instruments, s.val.instr)) :
                s \in {instrument_step(d, file_offset)}} : TRUE

\* XModule::parse after verify_filetype: header is data[..file_offset]
parse_body(d, header, file_offset) ==
    IF ~InBounds(header, XM_CHANNEL_COUNT) THEN Panic
    ELSE IF ~InBounds(header, XM_PATTERN_COUNT) THEN Panic
    ELSE CHOOSE out \in
            {IF ~IsOk(ps) THEN ps
             ELSE IF ~InBounds(header, XM_INSTRUMENT_COUNT) THEN Panic
             ELSE CHOOSE out2 \in
                    {IF ~IsOk(is) THEN is
                     ELSE Ok([header |-> header,
                              patterns |-> ps.val.patterns,
                              instruments |-> is.val]) :
                        is \in {parse_instruments(d, ByteAt(header, XM_INSTRUMENT_COUNT),
                                    0, ps.val.file_offset, << >>)}} : TRUE :
                ps \in {parse_patterns(d, ByteAt(header, XM_CHANNEL_COUNT),
                            ByteAt(header, XM_PATTERN_COUNT), 0, file_offset, << >>)}} : TRUE

\* XModule::parse(data)
XModule_parse(d) ==
    IF ~IsOk(verify_filetype(d)) THEN verify_filetype(d)
    ELSE parse_body(d, Slice(d, 0, XM_HEADER_SIZE + read_usize(d, XM_HEADER_SIZE)),
                    XM_HEADER_SIZE + read_usize(d, XM_HEADER_SIZE))

---------------------------------------------------------------------------
(* Inputs                                                                  *)
(*                                                                         *)
(* Every operation of the library is a function of an immutable object, so *)
(* each specification draws the object in its initial state and a          *)
(* behaviour is one call on it: an action is enabled while no result is    *)
(* recorded (res = NoRes) and records the value the call returns.          *)

\* Longest track the track specifications draw.
MaxRows == 3

\* All tracks of exactly n rows whose cells come from `cells`.
RECURSIVE TracksOfLen(_, _)
TracksOfLen(cells, n) ==
    IF n = 0 THEN {EmptyTrack}
    ELSE {PushCell(t, c) : t \in TracksOfLen(cells, n - 1), c \in cells}

TracksUpTo(cells, n) == UNION {TracksOfLen(cells, k) : k \in 0..n}

\* The rows a caller asks about: every row of the track, the first row past
\* its end, and the largest u8.
QueryRows(t) == (0..TrackLen(t)) \cup {255}

Cell(n, i, v, c, p) ==
    [note |-> n, instrument |-> i, volume |-> v, fx_command |-> c, fx_param |-> p]

\* The command byte and the parameter nibble the XM format uses for effect
\* identifier id (E1x..EEx: command 0x0E; X1x, X2x: command 0x21).
IsExtendedId(id) == id > 29
SharedCmd(id) == IF id <= 29 THEN id ELSE IF id <= 35 THEN 33 ELSE 14
SubEffect(id) == IF id <= 35 THEN id - 33 ELSE id % 16

\* Effect cells that matter to a query about id: no command, the class's own
\* command without, with a zero and with a nonzero parameter, another
\* sub-effect of the same command byte, and a command of another class; and with
\* a note: no command, and the class's own command with a zero and a nonzero
\* parameter.
FxCmdParams(id) ==
    LET own == SharedCmd(id)
        other == IF own = 12 THEN 11 ELSE 12
        base == IF IsExtendedId(id) THEN SubEffect(id) * 16 ELSE 0
    IN  {<<None, None>>, <<Some(own), None>>, <<Some(own), Some(base)>>,
         <<Some(own), Some(base + 5)>>, <<Some(other), Some(5)>>}
        \cup (IF IsExtendedId(id)
              THEN {<<Some(own), Some(((base + 16) % 256) + 5)>>}
              ELSE {})

FxNoteCmdParams(id) ==
    LET own == SharedCmd(id)
        base == IF IsExtendedId(id) THEN SubEffect(id) * 16 ELSE 0
    IN  {<<None, None>>, <<Some(own), Some(base)>>, <<Some(own), Some(base + 5)>>}

FxCells(id) ==
    {Cell(None, None, None, cp[1], cp[2]) : cp \in FxCmdParams(id)}
    \cup {Cell(Some(49), None, None, cp[1], cp[2]) : cp \in FxNoteCmdParams(id)}

\* Cells for the note / instrument / volume queries.
NivCells ==
    {Cell(n, None, None, None, None) : n \in {None, Some(49), Some(64)}}
    \cup {Cell(None, Some(i), None, None, None) : i \in {1, 2}}
    \cup {Cell(Some(49), Some(1), None, None, None)}
    \cup {Cell(None, None, Some(v), None, None) : v \in {15, 16, 80, 81}}
    \cup {Cell(Some(49), None, Some(v), None, None) : v \in {16, 81}}

NoPattern == [header |-> << >>, tracks |-> << >>]
NoModule == [header |-> << >>]
NoSample == [header |-> << >>, data |-> << >>]
NoInstrument == [header |-> << >>, samples |-> << >>]

---------------------------------------------------------------------------
(* Effect queries on one track                                             *)

InitFx ==
    /\ fx_command \in 0..255
    /\ track \in TracksUpTo(FxCells(fx_command), IF valid_fx(fx_command) THEN MaxRows ELSE 1)
    /\ data = << >> /\ channels = 0 /\ ptn = NoPattern
    /\ xm = NoModule /\ smp = NoSample /\ instr = NoInstrument
    /\ res = NoRes

Fx ==
    /\ res = NoRes
    /\ \E row \in QueryRows(track) :
          res' = [op |-> "fx", row |-> row, r |-> fx(track, fx_command, row)]
    /\ UNCHANGED <<data, track, fx_command, channels, ptn, xm, smp, instr>>

NextFx == Fx

SpecFx == InitFx /\ [][NextFx]_vars

---------------------------------------------------------------------------
(* Note, instrument and volume queries on one track                        *)

InitTrack ==
    /\ track \in TracksUpTo(NivCells, MaxRows)
    /\ fx_command = 0
    /\ data = << >> /\ channels = 0 /\ ptn = NoPattern
    /\ xm = NoModule /\ smp = NoSample /\ instr = NoInstrument
    /\ res = NoRes

Note ==
    /\ res = NoRes
    /\ \E row \in QueryRows(track) :
          res' = [op |-> "note", row |-> row, r |-> note(track, row)]
    /\ UNCHANGED <<data, track, fx_command, channels, ptn, xm, smp, instr>>

Instrument ==
    /\ res = NoRes
    /\ \E row \in QueryRows(track) :
          res' = [op |-> "instrument", row |-> row, r |-> instrument(track, row)]
    /\ UNCHANGED <<data, track, fx_command, channels, ptn, xm, smp, instr>>

Volume ==
    /\ res = NoRes
    /\ \E row \in QueryRows(track) :
          res' = [op |-> "volume", row |-> row, r |-> volume(track, row)]
    /\ UNCHANGED <<data, track, fx_command, channels, ptn, xm, smp, instr>>

NextTrack == Note \/ Instrument \/ Volume

SpecTrack == InitTrack /\ [][NextTrack]_vars

---------------------------------------------------------------------------
(* Claims about XMTrack                                                    *)

RowValid(t, row) == row < TrackLen(t)

\* Row r of t carries a command of effect class id (for an extended class: the
\* shared command byte with the class's sub-effect in the upper nibble).
CarriesClass(t, id, r) ==
    /\ IsSome(t.fx_commands[r + 1])
    /\ Val(t.fx_commands[r + 1]) = SharedCmd(id)
    /\ IsExtendedId(id) =>
          /\ IsSome(t.fx_params[r + 1])
          /\ Val(t.fx_params[r + 1]) \div 16 = SubEffect(id)

\* Row r sets class id to the nonzero parameter P (the parameter nibble for an
\* extended class).
SetsClass(t, id, r, P) ==
    /\ CarriesClass(t, id, r)
    /\ IsSome(t.fx_params[r + 1])
    /\ P = (IF IsExtendedId(id) THEN Val(t.fx_params[r + 1]) % 16
            ELSE Val(t.fx_params[r + 1]))
    /\ P > 0

Quiet(t, id, A, B) ==
    \A r \in (A + 1)..B : ~IsSome(t.notes[r + 1]) /\ ~CarriesClass(t, id, r)

\* C1 (as stated, for the classes that have effect memory): if row A carries a
\* command of class X with nonzero parameter P and no row in A+1..B carries a
\* note or a command of class X, then fx(X, B) returns P.
C1_EffectMemory ==
    (res.op = "fx" /\ fx_mem(fx_command) /\ RowValid(track, res.row)) =>
        \A A \in 0..(res.row - 1) : \A P \in 1..255 :
            (SetsClass(track, fx_command, A, P) /\ Quiet(track, fx_command, A, res.row))
                => res.r = Ok(P)

\* C16: for an extended effect id (0xE1..0xEE with command byte 0x0E, X1x / X2x
\* with command byte 0x21), a row whose command is the shared command byte and
\* whose parameter has the id's sub-effect in the upper nibble and a nonzero
\* lower nibble v makes fx(id, that row) return v.
C16_ExtendedByNibble ==
    (res.op = "fx" /\ valid_fx(fx_command) /\ IsExtendedId(fx_command)
        /\ RowValid(track, res.row)) =>
        \A v \in 1..15 :
            SetsClass(track, fx_command, res.row, v) => res.r = Ok(v)

\* Row r carries a command of class id with a zero parameter (a zero lower
\* nibble for an extended class).
CarriesZero(t, id, r) ==
    /\ CarriesClass(t, id, r)
    /\ IsSome(t.fx_params[r + 1])
    /\ (IF IsExtendedId(id) THEN Val(t.fx_params[r + 1]) % 16
        ELSE Val(t.fx_params[r + 1])) = 0

\* C17: for an effect class X with memory, a row r > 0 without a note that
\* carries a command of class X with a zero parameter (zero parameter nibble
\* for an extended class) retains the prior state: fx(X, r) = fx(X, r - 1).
C17_MemoryRetains ==
    (res.op = "fx" /\ fx_mem(fx_command) /\ RowValid(track, res.row) /\ res.row > 0
        /\ ~IsSome(track.notes[res.row + 1])
        /\ CarriesZero(track, fx_command, res.row)) =>
        res.r = fx(track, fx_command, res.row - 1)

\* The value an effect class has when nothing has set it.
DefaultOf(id) == IF id = 229 THEN 8 ELSE 0

\* Row r carries a command, and not one of class id.
CarriesOther(t, id, r) ==
    IsSome(t.fx_commands[r + 1]) /\ ~CarriesClass(t, id, r)

\* C18: for an effect class X without memory, fx(X, r) is X's default value (8
\* for E5x, 0 otherwise) whenever row r carries a command of a different class,
\* and whenever no row 0..r carries a command of class X, with or without notes.
C18_NoMemoryDefault ==
    (res.op = "fx" /\ valid_fx(fx_command) /\ ~fx_mem(fx_command)
        /\ RowValid(track, res.row)) =>
        /\ CarriesOther(track, fx_command, res.row) => res.r = Ok(DefaultOf(fx_command))
        /\ (\A r \in 0..res.row : ~CarriesClass(track, fx_command, r))
              => res.r = Ok(DefaultOf(fx_command))

\* The parameter of the command on row r as class id reads it: the lower
\* nibble for an extended class, the whole byte otherwise.
ClassParam(t, id, r) ==
    IF IsExtendedId(id) THEN Val(t.fx_params[r + 1]) % 16 ELSE Val(t.fx_params[r + 1])

\* C21: on a row that carries both a note and a command of class X with a
\* parameter, the note's reset comes first: fx(X, that row) is the command's
\* parameter when it is nonzero or X has no memory, and X's default when X has
\* memory and the parameter is zero.
C21_NoteThenCommand ==
    (res.op = "fx" /\ valid_fx(fx_command) /\ RowValid(track, res.row)
        /\ IsSome(track.notes[res.row + 1])
        /\ CarriesClass(track, fx_command, res.row)
        /\ IsSome(track.fx_params[res.row + 1])) =>
        res.r = Ok(IF ClassParam(track, fx_command, res.row) > 0 \/ ~fx_mem(fx_command)
                   THEN ClassParam(track, fx_command, res.row)
                   ELSE DefaultOf(fx_command))

\* The nearest row at or before row whose field is present, as a set (empty or
\* a singleton).
NearestPresent(field, row) ==
    {r \in 0..row : IsSome(field[r + 1]) /\ \A k \in (r + 1)..row : ~IsSome(field[k + 1])}

NearestValue(field, row) ==
    IF NearestPresent(field, row) = {} THEN 0
    ELSE Val(field[(CHOOSE r \in NearestPresent(field, row) : TRUE) + 1])

VolumeRows(t, row) ==
    {r \in 0..row : IsSome(t.volumes[r + 1])
                    /\ Val(t.volumes[r + 1]) >= 16 /\ Val(t.volumes[r + 1]) <= 80}

\* C8: for a valid row r, volume(r) is v - 0x10 for the volume byte v of the
\* nearest row r' <= r with v in [0x10, 0x50], provided no row in r'+1..r carries a
\* note; otherwise 0x40.  The result is in 0..0x40.
C8_VolumeNearest ==
    (res.op = "volume" /\ RowValid(track, res.row)) =>
        LET S == VolumeRows(track, res.row)
            near == CHOOSE r \in S : \A k \in S : k <= r
        IN  /\ IsOk(res.r) /\ res.r.val \in 0..64
            /\ IF S # {} /\ \A k \in (near + 1)..res.row : ~IsSome(track.notes[k + 1])
               THEN res.r.val = Val(track.volumes[near + 1]) - 16
               ELSE res.r.val = 64

\* A volume set on a note's own row and read two rows later, past an
\* out-of-range volume byte.
C8_Witness ==
    /\ res.op = "volume" /\ res.row = 2 /\ TrackLen(track) = 3
    /\ track.volumes = <<Some(16), Some(81), None>>
    /\ track.notes = <<Some(49), None, None>>
    /\ res.r = Ok(0)

\* The 38 recognized effect identifiers: 0x00-0x0D, 0x0F, 0x10, 0x11, 0x14, 0x15,
\* 0x19, 0x1B, 0x1D, 0x22, 0x23, 0xE1-0xEE.
RecognizedIds == (0..13) \cup {15, 16, 17, 20, 21, 25, 27, 29, 34, 35} \cup (225..238)

\* C10: with a valid row, fx(id, row) returns the invalid-effect error exactly when
\* id is not one of the 38 recognized identifiers and a parameter value for every
\* recognized one; 0x0E and 0x21 are unrecognized.
C10_InvalidEffect ==
    /\ Cardinality(RecognizedIds) = 38
    /\ (res.op = "fx" /\ RowValid(track, res.row)) =>
          /\ IsFxErr(res.r) <=> fx_command \notin RecognizedIds
          /\ fx_command \in RecognizedIds => IsOk(res.r) /\ res.r.val \in 0..255
          /\ fx_command \in {14, 33} => IsFxErr(res.r)

\* The raw shared command byte 0x0E asked about on a row that carries it.
C10_Witness ==
    /\ res.op = "fx" /\ fx_command = 14 /\ RowValid(track, res.row)
    /\ track.fx_commands[res.row + 1] = Some(14)
    /\ IsFxErr(res.r)

---------------------------------------------------------------------------
(* XMPattern::parse on pattern records                                     *)

\* Longest packed cell data and largest declared row count the pattern
\* specification draws.
MaxPacked == 6
MaxPatRows == 2

\* n as count little-endian bytes
RECURSIVE LE(_, _)
LE(n, count) == IF count = 0 THEN << >> ELSE <<n % 256>> \o LE(n \div 256, count - 1)

RECURSIVE SeqsOfLen(_, _)
SeqsOfLen(S, n) ==
    IF n = 0 THEN {<< >>} ELSE {Append(q, b) : q \in SeqsOfLen(S, n - 1), b \in S}

SeqsUpTo(S, n) == UNION {SeqsOfLen(S, k) : k \in 0..n}

\* Cell bytes: 0x80 (a packed cell with no field), 0x8A (a packed cell with an
\* instrument and an effect command), 0x9F (a packed cell with all five fields),
\* 0x31 (an unpacked cell's note); field bytes take the same values.
CellBytes == {128, 138, 159, 49}

\* A pattern record: the 9-byte header (length, packing type, row count, packed
\* size) and the cell data.
PatternRecord(rows, packed_size, cells) ==
    LE(9, 4) \o <<0>> \o LE(rows, 2) \o LE(packed_size, 2) \o cells

InitPatParse ==
    /\ channels \in 0..2
    /\ \E rows \in (1..MaxPatRows) \cup {256}, cells \in SeqsUpTo(CellBytes, MaxPacked),
          extra \in 0..1 :
          data = PatternRecord(rows, Len(cells) + extra, cells)
    /\ track = EmptyTrack /\ fx_command = 0 /\ ptn = NoPattern
    /\ xm = NoModule /\ smp = NoSample /\ instr = NoInstrument
    /\ res = NoRes

ParsePattern ==
    /\ res = NoRes
    /\ LET r == XMPattern_parse(data, channels)
       IN  /\ res' = [op |-> "XMPattern::parse", row |-> 0, r |-> r]
           /\ ptn' = IF IsOk(r) THEN r.val ELSE ptn
    /\ UNCHANGED <<data, track, fx_command, channels, xm, smp, instr>>

NextPatParse == ParsePattern

SpecPatParse == InitPatParse /\ [][NextPatParse]_vars

\* The bytes one cell occupies, from its control byte.
CellSize(ctrl) ==
    IF ctrl >= 128
    THEN 1 + Cardinality({k \in 0..4 : Bit(ctrl, k)})
    ELSE 5

\* The cell bytes that decoding n cells of d from offset needs: the offset
\* walk by control bytes; a control byte past the end of d counts one byte.
RECURSIVE BytesNeeded(_, _, _)
BytesNeeded(d, offset, n) ==
    IF n = 0 THEN 0
    ELSE IF ~InBounds(d, offset) THEN 1
    ELSE CellSize(ByteAt(d, offset))
            + BytesNeeded(d, offset + CellSize(ByteAt(d, offset)), n - 1)

DeclaredRows(d) == read_u16(d, 5)
DeclaredPacked(d) == read_u16(d, 7)

\* C2 (for a pattern of at least one cell): whenever the cell bytes that decoding
\* rows x channels cells needs differ from the declared packed size,
\* XMPattern::parse returns a format error: it neither returns Ok nor reads
\* outside the slice.
C2_ExactPackedSize ==
    (res.op = "XMPattern::parse" /\ channels > 0
        /\ BytesNeeded(data, read_usize(data, 0), DeclaredRows(data) * channels)
              # DeclaredPacked(data))
    => IsFormatErr(res.r)

\* C13: after a successful XMPattern::parse every track's five arrays are as
\* long as the row count XMPattern::len() reports, whatever row count 1..256
\* the record declares.
C13_TrackArrayLengths ==
    (res.op = "XMPattern::parse" /\ IsOk(res.r)) =>
        \A c \in 1..Len(ptn.tracks) :
            /\ Len(ptn.tracks[c].notes) = XMPattern_len(ptn)
            /\ Len(ptn.tracks[c].instruments) = XMPattern_len(ptn)
            /\ Len(ptn.tracks[c].volumes) = XMPattern_len(ptn)
            /\ Len(ptn.tracks[c].fx_commands) = XMPattern_len(ptn)
            /\ Len(ptn.tracks[c].fx_params) = XMPattern_len(ptn)

\* The byte of d at offset, -1 past its end.
SafeByte(d, offset) == IF InBounds(d, offset) THEN ByteAt(d, offset) ELSE -1

\* The offset of the control byte of the k-th cell of pattern record d: the
\* cells follow the header one after the other, each as long as its control
\* byte says.
RECURSIVE CellOffset(_, _)
CellOffset(d, k) ==
    IF k = 0 THEN read_usize(d, 0)
    ELSE CellOffset(d, k - 1) + CellSize(SafeByte(d, CellOffset(d, k - 1)))

FieldNames == <<"notes", "instruments", "volumes", "fx_commands", "fx_params">>

\* Field j (0 the note .. 4 the effect parameter) of the cell whose control byte
\* is ctrl, at offset: in a packed cell the fields whose bit is set follow the
\* control byte in order and the others are absent; in an unpacked cell the
\* control byte is the note and the next four bytes are the other fields.
ExpectedField(d, ctrl, offset, j) ==
    IF ctrl >= 128
    THEN IF Bit(ctrl, j)
         THEN Some(SafeByte(d, offset + 1 + Cardinality({i \in 0..(j - 1) : Bit(ctrl, i)})))
         ELSE None
    ELSE Some(SafeByte(d, offset + j))

\* C19: after a successful XMPattern::parse there is one track per channel, and
\* row r of track c holds the fields of cell r * channels + c of the record,
\* the cells lying one after the other: a packed cell (control byte with bit
\* 0x80) is 1 + (set bits among 0..4) bytes, its set bits naming in order the
\* fields that follow and the others absent; an unpacked cell is 5 bytes, note
\* first, all fields present.
C19_CellDecoding ==
    (res.op = "XMPattern::parse" /\ IsOk(res.r)) =>
        /\ Len(ptn.tracks) = channels
        /\ \A c \in 1..channels : \A r \in 1..Len(ptn.tracks[c].notes) : \A j \in 1..5 :
              ptn.tracks[c][FieldNames[j]][r] =
                  ExpectedField(data,
                      SafeByte(data, CellOffset(data, (r - 1) * channels + (c - 1))),
                      CellOffset(data, (r - 1) * channels + (c - 1)), j - 1)

\* A two-channel, two-row pattern parsed: the first cell of the second channel
\* is packed with an instrument and an effect command only.
C19_Witness ==
    /\ res.op = "XMPattern::parse" /\ IsOk(res.r)
    /\ channels = 2
    /\ Len(ptn.tracks[2].notes) = 2
    /\ ptn.tracks[2].notes[1] = None
    /\ ptn.tracks[2].instruments[1] = Some(49)
    /\ ptn.tracks[2].fx_commands[1] = Some(128)
    /\ ptn.tracks[1].notes[2] = None

---------------------------------------------------------------------------
(* XMPattern::bpm and XMPattern::tempo                                     *)

\* Rows of the patterns whose every cell is drawn, and the number of speed
\* commands placed in the larger pattern.
MaxSpeedRows == 2
MaxSpeedCmds == 2

\* The XM header up to the order list (0x00..0x4F) and an order list of
\* seq_len entries: magic, two 20-byte names, 0x1A, version 1.04, header size,
\* sequence length, restart position, channel / pattern / instrument counts,
\* frequency table flag, default tempo, default BPM.
ModuleHeader(seq_len, chans, patterns, instruments, default_tempo, default_bpm) ==
    Magic \o [i \in 1..20 |-> 32] \o <<26>> \o [i \in 1..20 |-> 32]
        \o <<4, 1>> \o LE(20 + seq_len, 4) \o LE(seq_len, 2) \o LE(0, 2)
        \o LE(chans, 2) \o LE(patterns, 2) \o LE(instruments, 2) \o LE(1, 2)
        \o LE(default_tempo, 2) \o LE(default_bpm, 2) \o [i \in 1..seq_len |-> 0]

\* The bytes the packed encoding of a cell takes: the control byte and one
\* byte per present field.
PackedCellSize(t, r) ==
    1 + Cardinality({f \in {"notes", "instruments", "volumes", "fx_commands", "fx_params"} :
                        IsSome(t[f][r])})

RECURSIVE SumOver(_, _)
SumOver(f, S) ==
    IF S = {} THEN 0
    ELSE LET x == CHOOSE y \in S : TRUE IN f[x] + SumOver(f, S \ {x})

\* The XMPattern that XMPattern::parse builds for these tracks of `rows` rows.
PatternOf(rows, tracks) ==
    [header |->
        LE(9, 4) \o <<0>> \o LE(rows, 2)
          \o LE(SumOver([x \in (1..Len(tracks)) \X (1..rows) |->
                            PackedCellSize(tracks[x[1]], x[2])],
                        (1..Len(tracks)) \X (1..rows)), 2),
     tracks |-> tracks]

\* Effect cells that matter to bpm / tempo: no command, and Fxx with two
\* parameters on either side of the 0x20 threshold.
SpeedCells ==
    {Cell(None, None, None, cp[1], cp[2]) :
        cp \in {<<None, None>>, <<Some(15), Some(4)>>, <<Some(15), Some(31)>>,
                <<Some(15), Some(32)>>, <<Some(15), Some(125)>>}}

\* Patterns of 0..2 channels and 1..max_rows rows, every cell drawn.
DrawnPatterns(max_rows) ==
    UNION {{PatternOf(rows, tracks) : tracks \in [1..chans -> TracksOfLen(SpeedCells, rows)]} :
              chans \in 0..2, rows \in 1..max_rows}

SetCell(t, r, c) ==
    [notes |-> [t.notes EXCEPT ![r] = c.note],
     instruments |-> [t.instruments EXCEPT ![r] = c.instrument],
     volumes |-> [t.volumes EXCEPT ![r] = c.volume],
     fx_commands |-> [t.fx_commands EXCEPT ![r] = c.fx_command],
     fx_params |-> [t.fx_params EXCEPT ![r] = c.fx_param]]

\* Track sets of 3 channels x 6 rows, empty but for at most n cells on rows 3
\* and 5 that carry F04, F7D, Fxx without a parameter, or E7D.
RECURSIVE PlacedTracks(_)
PlacedTracks(n) ==
    IF n = 0
    THEN {[c \in 1..3 |-> CHOOSE t \in TracksOfLen({Cell(None, None, None, None, None)}, 6) : TRUE]}
    ELSE PlacedTracks(n - 1)
         \cup {[ts EXCEPT ![c] = SetCell(@, r, Cell(None, None, None, cp[1], cp[2]))] :
                  ts \in PlacedTracks(n - 1), c \in 1..3, r \in {4, 6},
                  cp \in {<<Some(15), Some(4)>>, <<Some(15), Some(125)>>,
                          <<Some(15), None>>, <<Some(14), Some(125)>>}}

PlacedPatterns(n) == {PatternOf(6, ts) : ts \in PlacedTracks(n)}

InitSpeed ==
    /\ ptn \in DrawnPatterns(MaxSpeedRows) \cup PlacedPatterns(MaxSpeedCmds)
    /\ xm = [header |-> ModuleHeader(1, Len(ptn.tracks), 1, 0, 6, 120)]
    /\ data = << >> /\ track = EmptyTrack /\ fx_command = 0 /\ channels = Len(ptn.tracks)
    /\ smp = NoSample /\ instr = NoInstrument
    /\ res = NoRes

\* The rows a caller asks a pattern about: every row, the first row past the
\* end, and the largest u8.
PatternQueryRows(p) == (0..XMPattern_len(p)) \cup {255}

Bpm ==
    /\ res = NoRes
    /\ \E row \in PatternQueryRows(ptn), overflow_checks \in BOOLEAN :
          res' = [op |-> "bpm", row |-> row, r |-> bpm(ptn, xm, row, overflow_checks)]
    /\ UNCHANGED <<data, track, fx_command, channels, ptn, xm, smp, instr>>

Tempo ==
    /\ res = NoRes
    /\ \E row \in PatternQueryRows(ptn), overflow_checks \in BOOLEAN :
          res' = [op |-> "tempo", row |-> row, r |-> tempo(ptn, xm, row, overflow_checks)]
    /\ UNCHANGED <<data, track, fx_command, channels, ptn, xm, smp, instr>>

NextSpeed == Bpm \/ Tempo

SpecSpeed == InitSpeed /\ [][NextSpeed]_vars

\* The cells at or before row that carry Fxx with a parameter on the bpm
\* (>= 0x20) or tempo (< 0x20) side, as <<row, channel>>.
SpeedHits(p, row, want_bpm) ==
    {h \in (0..row) \X (1..Len(p.tracks)) :
        LET t == p.tracks[h[2]] IN
        /\ t.fx_commands[h[1] + 1] = Some(15)
        /\ IsSome(t.fx_params[h[1] + 1])
        /\ IF want_bpm THEN Val(t.fx_params[h[1] + 1]) >= 32
           ELSE Val(t.fx_params[h[1] + 1]) < 32}

\* The parameter of the chronologically last hit (greatest row; among equal
\* rows the highest channel), or the default.
LastSpeed(p, row, want_bpm, default) ==
    LET H == SpeedHits(p, row, want_bpm) IN
    IF H = {} THEN default
    ELSE LET h == CHOOSE x \in H :
                     \A y \in H : x[1] > y[1] \/ (x[1] = y[1] /\ x[2] >= y[2])
         IN  Val(p.tracks[h[2]].fx_params[h[1] + 1])

\* A from-scratch scan in playing order: rows 0..row, in each row the channels
\* in ascending order, every cell visited, the last hit kept.
RECURSIVE ScanFromScratch(_, _, _, _, _, _)
ScanFromScratch(p, r, c, row, want_bpm, val) ==
    IF r > row THEN val
    ELSE IF c > Len(p.tracks) THEN ScanFromScratch(p, r + 1, 1, row, want_bpm, val)
    ELSE ScanFromScratch(p, r, c + 1, row, want_bpm,
            LET cmd == p.tracks[c].fx_commands[r + 1]
                par == p.tracks[c].fx_params[r + 1]
            IN  IF cmd = Some(15) /\ IsSome(par)
                   /\ (IF want_bpm THEN Val(par) >= 32 ELSE Val(par) < 32)
                THEN Val(par) ELSE val)

\* The pattern of the example: 3 channels, F7D on channel 2 row 3, F04 on
\* channel 0 row 5, no other command.
ExamplePattern(p) ==
    /\ Len(p.tracks) = 3 /\ XMPattern_len(p) = 6
    /\ \A c \in 1..3, r \in 1..6 :
          LET cmd == p.tracks[c].fx_commands[r]
              par == p.tracks[c].fx_params[r]
          IN  IF c = 3 /\ r = 4 THEN cmd = Some(15) /\ par = Some(125)
              ELSE IF c = 1 /\ r = 6 THEN cmd = Some(15) /\ par = Some(4)
              ELSE cmd = None /\ par = None

\* C3: for a valid row, bpm returns the parameter of the chronologically last
\* Fxx with a present parameter >= 0x20 at or before the row, tempo the same for
\* parameters < 0x20, each the module's default when there is none; the result
\* equals a from-scratch scan of every cell from row 0; in the example pattern
\* bpm(5) = 0x7D and tempo(5) = 0x04.
C3_SpeedLastOccurrence ==
    /\ (res.op = "bpm" /\ res.row < XMPattern_len(ptn)) =>
          /\ res.r = Ok(LastSpeed(ptn, res.row, TRUE, XModule_bpm(xm)))
          /\ res.r = Ok(ScanFromScratch(ptn, 0, 1, res.row, TRUE, XModule_bpm(xm)))
          /\ (ExamplePattern(ptn) /\ res.row = 5) => res.r = Ok(125)
    /\ (res.op = "tempo" /\ res.row < XMPattern_len(ptn)) =>
          /\ res.r = Ok(LastSpeed(ptn, res.row, FALSE, XModule_tempo(xm)))
          /\ res.r = Ok(ScanFromScratch(ptn, 0, 1, res.row, FALSE, XModule_tempo(xm)))
          /\ (ExamplePattern(ptn) /\ res.row = 5) => res.r = Ok(4)

\* The example: bpm asked at row 5 of the example pattern.
C3_Witness ==
    /\ ExamplePattern(ptn) /\ res.op = "bpm" /\ res.row = 5 /\ res.r = Ok(125)

\* C4 (the part about XMPattern::bpm and XMPattern::tempo): for every row >= the
\* row count, of every pattern, the query returns the row-out-of-range error.
C4_RowOutOfRange ==
    (res.op \in {"bpm", "tempo"} /\ res.row >= XMPattern_len(ptn)) => IsRowErr(res.r)

---------------------------------------------------------------------------
(* XMSample::data_16bit_signed on delta payloads                           *)

\* Longest sample payload the sample specification draws.
MaxPayload == 4

\* A 40-byte sample header: data length, loop start, loop length, volume,
\* finetune, type, panning, relative note, reserved, 22-byte name.
SampleHeader(len, type) ==
    LE(len, 4) \o LE(0, 4) \o LE(0, 4) \o <<64, 0, type, 128, 0, 0>>
        \o [i \in 1..22 |-> 32]

\* Delta bytes: zero, the smallest step, and the bytes around the sign change.
DeltaBytes == {0, 1, 127, 128, 255}

\* The XMSample that XMInstrument::parse builds for a payload: the data is as
\* long as the header's data length says.
SampleOf(type, payload) ==
    [header |-> SampleHeader(Len(payload), type), data |-> payload]

InitSample ==
    /\ \E type \in {0, 16}, payload \in SeqsUpTo(DeltaBytes, MaxPayload) :
          smp = SampleOf(type, payload)
    /\ instr = NoInstrument
    /\ data = << >> /\ track = EmptyTrack /\ fx_command = 0 /\ channels = 0
    /\ ptn = NoPattern /\ xm = NoModule
    /\ res = NoRes

Data16BitSigned ==
    /\ res = NoRes
    /\ res' = [op |-> "data_16bit_signed", row |-> 0, r |-> data_16bit_signed(smp)]
    /\ UNCHANGED <<data, track, fx_command, channels, ptn, xm, smp, instr>>

Data8BitSigned ==
    /\ res = NoRes
    /\ res' = [op |-> "data_8bit_signed", row |-> 0, r |-> data_8bit_signed(smp)]
    /\ UNCHANGED <<data, track, fx_command, channels, ptn, xm, smp, instr>>

Data8BitUnsigned ==
    /\ res = NoRes
    /\ res' = [op |-> "data_8bit_unsigned", row |-> 0, r |-> data_8bit_unsigned(smp)]
    /\ UNCHANGED <<data, track, fx_command, channels, ptn, xm, smp, instr>>

Data16BitUnsigned ==
    /\ res = NoRes
    /\ res' = [op |-> "data_16bit_unsigned", row |-> 0, r |-> data_16bit_unsigned(smp)]
    /\ UNCHANGED <<data, track, fx_command, channels, ptn, xm, smp, instr>>

DataNative ==
    /\ res = NoRes
    /\ res' = [op |-> "data_native", row |-> 0, r |-> data_native(smp)]
    /\ UNCHANGED <<data, track, fx_command, channels, ptn, xm, smp, instr>>

NextSample ==
    \/ Data16BitSigned \/ Data8BitSigned \/ Data8BitUnsigned
    \/ Data16BitUnsigned \/ DataNative

SpecSample == InitSample /\ [][NextSample]_vars

\* The i-th delta of a payload (1-based): a byte shifted left by 8 in 8-bit
\* mode, a little-endian byte pair in 16-bit mode.
Delta(s, i) ==
    IF is_16bit(s) THEN s.data[2 * i - 1] + 256 * s.data[2 * i]
    ELSE s.data[i] * 256

\* C9: data_16bit_signed completes for every payload, returns len values in
\* 8-bit mode and floor(len / 2) in 16-bit mode, and value[i] is
\* (value[i-1] + delta[i]) mod 2^16 with value[-1] = 0.
C9_DeltaCodec ==
    res.op = "data_16bit_signed" =>
        /\ IsOk(res.r)
        /\ Len(res.r.val) = (IF is_16bit(smp) THEN Len(smp.data) \div 2 ELSE Len(smp.data))
        /\ \A i \in 1..Len(res.r.val) :
              LET prev == IF i = 1 THEN 0 ELSE res.r.val[i - 1]
              IN  (res.r.val[i] - (prev + Delta(smp, i))) % 65536 = 0

\* The 16-bit two's-complement pattern of a signed value, and its top 8 bits
Pattern16(v) == IF v < 0 THEN v + 65536 ELSE v
Top8(u) == u \div 256

\* A conversion's result is the elementwise image under F of what
\* data_16bit_signed returns for the same sample, with the same length; where
\* data_16bit_signed aborts there is nothing to convert and the conversion
\* aborts with it.
ImageOfSigned(r, F(_)) ==
    LET signed == data_16bit_signed(smp)
    IN  IF IsOk(signed)
        THEN /\ IsOk(r) /\ Len(r.val) = Len(signed.val)
             /\ \A i \in 1..Len(signed.val) : r.val[i] = F(signed.val[i])
        ELSE r = signed

Unsigned16Of(v) == (v + 32768) % 65536
Signed8Of(v) == IF Top8(Pattern16(v)) >= 128 THEN Top8(Pattern16(v)) - 256
                ELSE Top8(Pattern16(v))
Unsigned8Of(v) == Top8(Unsigned16Of(v))

\* C12: data_16bit_unsigned[i] = (signed[i] + 32768) mod 2^16, data_8bit_signed[i]
\* is the top 8 bits of signed[i], data_8bit_unsigned[i] the top 8 bits of
\* data_16bit_unsigned[i], each with the length of data_16bit_signed;
\* data_native is the stored payload; the sample is left as it was, so a
\* second call returns what the first did.
C12_Conversions ==
    /\ res.op = "data_16bit_unsigned" =>
          ImageOfSigned(res.r, Unsigned16Of) /\ res.r = data_16bit_unsigned(smp)
    /\ res.op = "data_8bit_signed" =>
          ImageOfSigned(res.r, Signed8Of) /\ res.r = data_8bit_signed(smp)
    /\ res.op = "data_8bit_unsigned" =>
          ImageOfSigned(res.r, Unsigned8Of) /\ res.r = data_8bit_unsigned(smp)
    /\ res.op = "data_native" => res.r = Ok(smp.data) /\ res.r = data_native(smp)
    /\ res.op = "data_16bit_signed" => res.r = data_16bit_signed(smp)

\* An unsigned 8-bit conversion of a 16-bit sample whose running sum wraps
\* below zero: deltas 0x0001 and 0x8080 give 1 and -32639, whose unsigned
\* top bytes are 0x80 and 0x00.
C12_Witness ==
    /\ is_16bit(smp) /\ smp.data = <<1, 0, 128, 128>>
    /\ res.op = "data_8bit_unsigned" /\ res.r = Ok(<<128, 0>>)

---------------------------------------------------------------------------
(* XModule::parse on module buffers                                        *)

\* Most samples of a drawn instrument, and the bytes cut from the end of a
\* module buffer.
MaxSamples == 2
MaxModuleCut == 3

RECURSIVE Concat(_)
Concat(qs) == IF qs = << >> THEN << >> ELSE Head(qs) \o Concat(Tail(qs))

\* An instrument record as the format lays it out.  Without samples: the
\* 29-byte header (length, 22-byte name, type, sample count).  With samples: the
\* 263-byte header, one 40-byte sample header per sample, then the payloads in
\* header order, each as long as its header says.
InstrumentRecord(sample_lens) ==
    IF sample_lens = << >>
    THEN LE(29, 4) \o [i \in 1..22 |-> 32] \o <<0>> \o LE(0, 2)
    ELSE LE(263, 4) \o [i \in 1..22 |-> 32] \o <<0>> \o LE(Len(sample_lens), 2)
            \o LE(40, 4) \o [i \in 1..230 |-> 0]
            \o Concat([k \in 1..Len(sample_lens) |-> SampleHeader(sample_lens[k], 0)])
            \o Concat([k \in 1..Len(sample_lens) |-> [i \in 1..sample_lens[k] |-> 1]])

\* A well-formed module: the header with a one-entry order list, one channel,
\* `patterns` one-row patterns of one empty packed cell, and the instruments.
ModuleBuffer(patterns, instrs) ==
    ModuleHeader(1, 1, patterns, Len(instrs), 6, 120)
        \o Concat([k \in 1..patterns |-> PatternRecord(1, 1, <<128>>)])
        \o Concat([k \in 1..Len(instrs) |-> InstrumentRecord(instrs[k])])

\* The instrument lists drawn: none, one instrument, or a sample-less instrument
\* followed by one; an instrument is its list of sample data lengths.
InstrumentLists(max_samples) ==
    LET one == SeqsUpTo({0, 4, 8}, max_samples)
    IN  {<< >>} \cup {<<i>> : i \in one} \cup {<<<< >>, i>> : i \in one}

\* d with the byte at offset replaced (d itself when offset is past its end)
Patch(d, offset, val) ==
    IF InBounds(d, offset) THEN [d EXCEPT ![offset + 1] = val] ELSE d

\* Single-byte changes to a header: none, the first and the last magic byte,
\* the two version bytes, and the header size field (smaller, larger, and its
\* second byte).
HeaderPatches ==
    {<<0, 69>>, <<0, 101>>, <<16, 0>>, <<58, 3>>, <<59, 2>>,
     <<60, 0>>, <<60, 9>>, <<60, 13>>, <<60, 255>>, <<61, 1>>}

\* The lengths a buffer is cut to: every length through the header, and up to
\* max_cut bytes short of the whole buffer.
CutLengths(d, max_cut) ==
    {n \in 0..Len(d) : n <= 84 \/ n >= Len(d) - max_cut}

InitModule ==
    /\ \E buf \in {ModuleBuffer(patterns, instrs) :
                        patterns \in 0..1, instrs \in InstrumentLists(MaxSamples)} :
          \E d \in {Patch(buf, patch[1], patch[2]) : patch \in HeaderPatches} :
              \E n \in CutLengths(d, MaxModuleCut) : data = SubSeq(d, 1, n)
    /\ track = EmptyTrack /\ fx_command = 0 /\ channels = 0
    /\ ptn = NoPattern /\ xm = NoModule /\ smp = NoSample /\ instr = NoInstrument
    /\ res = NoRes

ParseModule ==
    /\ res = NoRes
    /\ LET r == XModule_parse(data)
       IN  /\ res' = [op |-> "XModule::parse", row |-> 0,
                      r |-> IF IsOk(r) THEN Ok("module") ELSE r]
           /\ xm' = IF IsOk(r) THEN r.val ELSE xm
    /\ UNCHANGED <<data, track, fx_command, channels, ptn, smp, instr>>

NextModule == ParseModule

SpecModule == InitModule /\ [][NextModule]_vars

\* C5: XModule::parse returns a format error for every buffer that is shorter
\* than 60 bytes, or whose first 17 bytes are not the magic, or whose version
\* bytes are not (4, 1), or that is shorter than 60 + the header size field;
\* whatever the length of the buffer and whichever conditions apply together.
C5_HeaderFormatError ==
    (res.op = "XModule::parse"
        /\ \/ Len(data) < 60
           \/ Len(data) >= 17 /\ Slice(data, 0, 17) # Magic
           \/ Len(data) >= 60
                /\ (ByteAt(data, XM_VERSION_MINOR) # 4 \/ ByteAt(data, XM_VERSION_MAJOR) # 1)
           \/ Len(data) >= 64 /\ Len(data) < 60 + read_usize(data, XM_HEADER_SIZE))
    => IsFormatErr(res.r)

\* C6 (for the buffers that pass the header checks): XModule::parse ends with a
\* module or with an error value, never with a read past the end of the buffer
\* or any third outcome.
C6_ParseAtomic ==
    (res.op = "XModule::parse" /\ verify_filetype(data) = Ok(TRUE))
    => (IsOk(res.r) \/ IsFormatErr(res.r))

\* The offset after n pattern records that start at offset, each as long as
\* its header length plus its packed size; -1 when one does not lie in d.
RECURSIVE PatternsEnd(_, _, _)
PatternsEnd(d, offset, n) ==
    IF n = 0 THEN offset
    ELSE IF offset + 9 > Len(d) THEN -1
    ELSE PatternsEnd(d, offset + read_usize(d, offset) + read_u16(d, offset + 7), n - 1)

\* The bytes the instrument record at offset occupies: 29 without samples,
\* else its header length, 40 per sample header and the samples' data lengths;
\* -1 when the header or the sample headers do not lie in d.
SampledSize(d, offset, header_length, n) ==
    IF offset + header_length + 40 * n > Len(d) THEN -1
    ELSE header_length + 40 * n
            + SumOver([j \in 0..(n - 1) |->
                          read_usize(d, offset + header_length + 40 * j)], 0..(n - 1))

RecordSize(d, offset) ==
    IF offset < 0 \/ offset + 29 > Len(d) THEN -1
    ELSE IF ByteAt(d, offset + 27) = 0 THEN 29
    ELSE SampledSize(d, offset, read_usize(d, offset), ByteAt(d, offset + 27))

\* The offset of instrument record k, the records following the patterns one
\* after the other; -1 when a record before it does not lie in d.
RECURSIVE InstrOffset(_, _)
InstrOffset(d, k) ==
    IF k = 0
    THEN PatternsEnd(d, XM_HEADER_SIZE + read_usize(d, XM_HEADER_SIZE),
                     ByteAt(d, XM_PATTERN_COUNT))
    ELSE IF RecordSize(d, InstrOffset(d, k - 1)) < 0 THEN -1
    ELSE InstrOffset(d, k - 1) + RecordSize(d, InstrOffset(d, k - 1))

\* The record at offset lies in d and the walk of XModule::parse leaves it at
\* its end.
WalkedExactly(d, offset, size) ==
    (size >= 0 /\ offset + size <= Len(d)) => instrument_end(d, offset) = Ok(offset + size)

\* C20: in the walk of XModule::parse an instrument record without samples
\* occupies 29 bytes and one with n > 0 samples its header length + 40 * n + the
\* sum of its samples' data lengths: for every instrument record that lies in
\* the buffer, the walk goes from its start to that many bytes further.
C20_InstrumentRecordSize ==
    (res.op = "XModule::parse" /\ verify_filetype(data) = Ok(TRUE)
        /\ InBounds(data, XM_INSTRUMENT_COUNT)) =>
        \A k \in 0..(ByteAt(data, XM_INSTRUMENT_COUNT) - 1) :
            WalkedExactly(data, InstrOffset(data, k), RecordSize(data, InstrOffset(data, k)))

---------------------------------------------------------------------------
(* XMInstrument::parse and the instrument accessors                        *)

\* Bytes start, start + 1, ... (mod 256, never 0): a run in which every
\* position is told from its neighbours.
Counting(start, n) == [i \in 1..n |-> ((start + i - 2) % 255) + 1]

\* An instrument record without samples as the format lays it out: header
\* length, 22-byte name, type, a sample count of 0, then `tail` (what is left
\* of a header longer than 29 bytes, or bytes that follow the record).
ZeroSampleRecord(header_length, tail) ==
    LE(header_length, 4) \o Counting(65, 22) \o <<0>> \o LE(0, 2) \o tail

\* The 263-byte header of an instrument with samples: the 29 bytes above, the
\* sample header size, the note-to-sample map (33..128), the volume (129..176)
\* and panning (177..224) envelope points, the two point counts (225, 226), the
\* volume sustain / loop start / loop end (227..229), the same for panning
\* (230..232), the volume and panning type (233, 234), the vibrato type / sweep /
\* depth / rate (235..238), the fadeout (239, 240) and 22 reserved bytes.
SampledHeader(n, vol_points, pan_points, vol_type, pan_type) ==
    LE(263, 4) \o Counting(65, 22) \o <<0>> \o LE(n, 2)
        \o LE(40, 4) \o [i \in 1..96 |-> 0]
        \o Counting(100, 48) \o Counting(150, 48)
        \o <<vol_points, pan_points, 11, 12, 13, 21, 22, 23, vol_type, pan_type>>
        \o <<31, 32, 33, 34, 52, 18>> \o [i \in 1..22 |-> 0]

\* An instrument record with samples: the header, one 40-byte sample header
\* per sample, then the payloads in header order; the payload bytes count up
\* from 1 through the whole payload area.
SampledRecord(header, sample_lens) ==
    header
        \o Concat([k \in 1..Len(sample_lens) |-> SampleHeader(sample_lens[k], 0)])
        \o Counting(1, SumOver(sample_lens, DOMAIN sample_lens))

\* The records drawn: without samples (header lengths 29, 33 and 263, alone, with
\* the rest of the header, and with the header_length more bytes the module
\* walk hands over), one cut short of its 29 bytes, and with 1..max_samples
\* samples of 0..max_len bytes under each setting of the envelope fields.
InstrumentRecords(max_samples, max_len) ==
    {ZeroSampleRecord(h, Counting(200, t)) : h \in {29, 33, 263}, t \in {0, 4, 29, 33}}
    \cup {SubSeq(ZeroSampleRecord(29, << >>), 1, 28)}
    \cup {SampledRecord(SampledHeader(Len(lens), f[1], f[2], f[3], f[4]), lens) :
            lens \in SeqsUpTo(0..max_len, max_samples) \ {<< >>},
            f \in {0, 2} \X {0, 3} \X {0, 4} \X {0, 4}}

InitInstr ==
    /\ data \in InstrumentRecords(MaxSamples, MaxPayload)
    /\ instr = NoInstrument /\ smp = NoSample
    /\ track = EmptyTrack /\ fx_command = 0 /\ channels = 0
    /\ ptn = NoPattern /\ xm = NoModule
    /\ res = NoRes

\* XMInstrument::parse(data): the instrument is kept in instr
ParseInstrument ==
    /\ res = NoRes
    /\ \E r \in {XMInstrument_parse(data)} :
          /\ res' = [op |-> "XMInstrument::parse", row |-> 0,
                     r |-> IF IsOk(r) THEN Ok("instrument") ELSE r]
          /\ instr' = IF IsOk(r) THEN r.val ELSE instr
    /\ UNCHANGED <<data, track, fx_command, channels, ptn, xm, smp>>

\* A call of an accessor on the instrument a successful parse returned
InstrumentQuery(op, r) ==
    /\ res.op = "XMInstrument::parse" /\ IsOk(res.r)
    /\ res' = [op |-> op, row |-> 0, r |-> r]
    /\ UNCHANGED <<data, track, fx_command, channels, ptn, xm, smp, instr>>

PanningEnvelope == InstrumentQuery("panning_envelope", panning_envelope(instr))
PanningLoopStart == InstrumentQuery("panning_loop_start", panning_loop_start(instr))
PanningLoopEnd == InstrumentQuery("panning_loop_end", panning_loop_end(instr))
PanningSustain == InstrumentQuery("panning_sustain", panning_sustain(instr))
PanningType == InstrumentQuery("panning_type", panning_type(instr))
SampleNumbers == InstrumentQuery("sample_numbers", sample_numbers(instr))
VibratoDepth == InstrumentQuery("vibrato_depth", vibrato_depth(instr))
VibratoRate == InstrumentQuery("vibrato_rate", vibrato_rate(instr))
VibratoSweep == InstrumentQuery("vibrato_sweep", vibrato_sweep(instr))
VibratoType == InstrumentQuery("vibrato_type", vibrato_type(instr))
VolumeEnvelope == InstrumentQuery("volume_envelope", volume_envelope(instr))
VolumeFadeout == InstrumentQuery("volume_fadeout", volume_fadeout(instr))
VolumeLoopStart == InstrumentQuery("volume_loop_start", volume_loop_start(instr))
VolumeLoopEnd == InstrumentQuery("volume_loop_end", volume_loop_end(instr))
VolumeSustain == InstrumentQuery("volume_sustain", volume_sustain(instr))
VolumeType == InstrumentQuery("volume_type", volume_type(instr))

NextInstr ==
    \/ ParseInstrument
    \/ PanningEnvelope \/ PanningLoopStart \/ PanningLoopEnd \/ PanningSustain
    \/ PanningType \/ SampleNumbers
    \/ VibratoDepth \/ VibratoRate \/ VibratoSweep \/ VibratoType
    \/ VolumeEnvelope \/ VolumeFadeout \/ VolumeLoopStart \/ VolumeLoopEnd
    \/ VolumeSustain \/ VolumeType

SpecInstr == InitInstr /\ [][NextInstr]_vars

\* The accessors C11 names
AccessorOps ==
    {"panning_envelope", "panning_loop_start", "panning_loop_end", "panning_sustain",
     "panning_type", "sample_numbers", "vibrato_depth", "vibrato_rate",
     "vibrato_sweep", "vibrato_type", "volume_envelope", "volume_fadeout",
     "volume_loop_start", "volume_loop_end", "volume_sustain", "volume_type"}

\* C11: a record of at least 29 bytes with sample count 0 parses to an
\* instrument whose header is the first 29 bytes and whose sample list is
\* empty, and every envelope, vibrato, fadeout and sample-map accessor of it
\* returns None.
C11_ZeroSampleInstrument ==
    (Len(data) >= 29 /\ ByteAt(data, 27) = 0) =>
        /\ res.op = "XMInstrument::parse" =>
              /\ res.r = Ok("instrument")
              /\ instr.header = Slice(data, 0, 29)
              /\ instr.samples = << >>
        /\ res.op \in AccessorOps => res.r = Ok(None)

\* The fadeout asked of an instrument parsed from a sample-less record that
\* carries more bytes than its 29.
C11_Witness ==
    /\ Len(data) = 58 /\ ByteAt(data, 27) = 0
    /\ Len(instr.header) = 29
    /\ res.op = "volume_fadeout" /\ res.r = Ok(None)

\* The data length in the 40-byte header of sample j (0-based) of a record with
\* samples, and the offset at which the format puts the payload of sample k:
\* after the header and the n sample headers, past the payloads before it.
DeclaredLen(d, j) == read_usize(d, read_usize(d, 0) + 40 * j)
PayloadOffset(d, n, k) ==
    read_usize(d, 0) + 40 * n + SumOver([j \in 0..(k - 1) |-> DeclaredLen(d, j)], 0..(k - 1))

\* C14: XMInstrument::parse of a record with n > 0 samples gives sample k the
\* len_k bytes at header_length + 40 * n + the sum of len_j for j < k.
C14_SamplePayloadSlices ==
    (res.op = "XMInstrument::parse" /\ ByteAt(data, 27) > 0) =>
        /\ IsOk(res.r)
        /\ Len(instr.samples) = ByteAt(data, 27)
        /\ \A k \in 0..(ByteAt(data, 27) - 1) :
              instr.samples[k + 1].data =
                  Slice(data, PayloadOffset(data, ByteAt(data, 27), k),
                        PayloadOffset(data, ByteAt(data, 27), k) + DeclaredLen(data, k))

\* The panning envelope's own fields in an instrument header: its point count
\* (+226) and the loop bit (4) of its type bitmask (+234).
PanningPoints(ins) == ByteAt(ins.header, 226)
PanningLoops(ins) == (ByteAt(ins.header, 234) \div 4) % 2 = 1

\* C22: for an instrument with samples, panning_sustain returns a value exactly
\* when the panning point count is nonzero, and panning_loop_start and
\* panning_loop_end exactly when it is nonzero and the panning type has the loop
\* bit set, whatever the volume envelope's point count and type are.
C22_PanningOwnFields ==
    (res.r.tag = "Ok" /\ Len(instr.samples) > 0) =>
        /\ res.op = "panning_sustain" =>
              (IsSome(res.r.val) <=> PanningPoints(instr) # 0)
        /\ res.op \in {"panning_loop_start", "panning_loop_end"} =>
              (IsSome(res.r.val) <=> (PanningPoints(instr) # 0 /\ PanningLoops(instr)))

---------------------------------------------------------------------------
(* The text accessors                                                      *)

\* The contents drawn for a text field of `width` bytes: k characters ('A' or
\* the invalid byte 0xFF) and then padding (NUL or space) for k = 0, 1,
\* width - 1 and width, and a field of 'A's with a NUL or a space second.
FieldTexts(width) ==
    {[i \in 1..width |-> IF i <= k THEN c ELSE pad] :
        k \in {0, 1, width - 1, width}, c \in {65, 255}, pad \in {0, 32}}
    \cup {[i \in 1..width |-> IF i = 2 THEN c ELSE 65] : c \in {0, 32}}

\* d with the bytes from offset on replaced by text
WithField(d, offset, text) ==
    [i \in 1..Len(d) |->
        IF i > offset /\ i <= offset + Len(text) THEN text[i - offset] ELSE d[i]]

\* A module header, a sample-less instrument and a sample as the parse
\* functions store them, holding the drawn names.
InitText ==
    /\ \E t20 \in FieldTexts(20), t22 \in FieldTexts(22) :
          /\ xm = [header |->
                     WithField(WithField(ModuleHeader(1, 1, 0, 0, 6, 120),
                                         XM_MODULE_NAME, t20), XM_TRACKER_NAME, t20)]
          /\ instr = [header |-> WithField(ZeroSampleRecord(29, << >>), 4, t22),
                      samples |-> << >>]
          /\ smp = [header |-> WithField(SampleHeader(0, 0), 18, t22), data |-> << >>]
    /\ data = << >> /\ track = EmptyTrack /\ fx_command = 0 /\ channels = 0
    /\ ptn = NoPattern
    /\ res = NoRes

ModuleName ==
    /\ res = NoRes
    /\ res' = [op |-> "XModule::name", row |-> 0, r |-> XModule_name(xm)]
    /\ UNCHANGED <<data, track, fx_command, channels, ptn, xm, smp, instr>>

TrackerName ==
    /\ res = NoRes
    /\ res' = [op |-> "XModule::tracker_name", row |-> 0, r |-> XModule_tracker_name(xm)]
    /\ UNCHANGED <<data, track, fx_command, channels, ptn, xm, smp, instr>>

InstrumentName ==
    /\ res = NoRes
    /\ res' = [op |-> "XMInstrument::name", row |-> 0, r |-> XMInstrument_name(instr)]
    /\ UNCHANGED <<data, track, fx_command, channels, ptn, xm, smp, instr>>

SampleName ==
    /\ res = NoRes
    /\ res' = [op |-> "XMSample::name", row |-> 0, r |-> XMSample_name(smp)]
    /\ UNCHANGED <<data, track, fx_command, channels, ptn, xm, smp, instr>>

NextText == ModuleName \/ TrackerName \/ InstrumentName \/ SampleName

SpecText == InitText /\ [][NextText]_vars

\* The text of a fixed-width field: its bytes before the first NUL (all of
\* them when there is none), decoded, without the trailing spaces.
RECURSIVE CutAtNul(_)
CutAtNul(field) ==
    IF field = << >> \/ Head(field) = 0 THEN << >>
    ELSE <<Head(field)>> \o CutAtNul(Tail(field))

RECURSIVE TrimSpaces(_)
TrimSpaces(str) ==
    IF str # << >> /\ str[Len(str)] = 32 THEN TrimSpaces(SubSeq(str, 1, Len(str) - 1))
    ELSE str

FieldText(d, offset, width) ==
    TrimSpaces([i \in 1..Len(CutAtNul(Slice(d, offset, offset + width))) |->
                   IF CutAtNul(Slice(d, offset, offset + width))[i] < 128
                   THEN CutAtNul(Slice(d, offset, offset + width))[i] ELSE 65533])

\* C15: each text accessor returns the text of its own field (20, 20, 22 and 22
\* bytes wide), cut at the first NUL and with trailing spaces trimmed: with no
\* NUL in the field the whole field, and nothing at or past offset + width.
C15_TextAccessors ==
    /\ res.op = "XModule::name" => res.r = Ok(FieldText(xm.header, XM_MODULE_NAME, 20))
    /\ res.op = "XModule::tracker_name" =>
          res.r = Ok(FieldText(xm.header, XM_TRACKER_NAME, 20))
    /\ res.op = "XMInstrument::name" => res.r = Ok(FieldText(instr.header, 4, 22))
    /\ res.op = "XMSample::name" => res.r = Ok(FieldText(smp.header, 18, 22))

=============================================================================
